---- MODULE Spec2Model ----
(***************************************************************************)
(* Model of prices_updater.py: one run of main().  For every configured    *)
(* asset the fetcher calls the provider with bounded retry and linear      *)
(* backoff; the fetched series are outer-joined on date into one table,    *)
(* which is written as CSV and then as JSON.                               *)
(*                                                                         *)
(* Dates are day ordinals 1..MaxDate counted from START.  The provider's   *)
(* adjusted close of an asset on a date is a fixed number that differs for *)
(* every (asset, date) pair, so a value that ends up in the wrong cell is  *)
(* visible; which rows a response holds, which of them are NaN, and        *)
(* whether the call raises, are chosen freely at every call.               *)
(***************************************************************************)
EXTENDS Integers, Sequences, FiniteSets, TLC

\* ---------------- Config ----------------

\* Number of calendar days after START the provider may report on.
MaxDate == 4

Dates == 1..MaxDate

ASSETS ==
    << [name |-> "BTC",  ticker |-> "BTC-USD"],
       [name |-> "Gold", ticker |-> "GC=F"] >>

MAX_RETRIES == 3

SLEEP_SEC == 3

NumAssets == Len(ASSETS)

Names == {ASSETS[k].name : k \in 1..NumAssets}

\* The missing-value marker of a float column; every price is positive.
NaN == -1

\* ---------------- Sequences ----------------

Range(s) == {s[k] : k \in DOMAIN s}

Min(S) == CHOOSE x \in S : \A y \in S : x <= y

RECURSIVE SortedSeq(_)
\* The elements of a set of dates in ascending order.
SortedSeq(S) ==
    IF S = {} THEN <<>> ELSE <<Min(S)>> \o SortedSeq(S \ {Min(S)})

RECURSIVE Insert(_, _)
Insert(x, s) ==
    IF s = <<>> THEN <<x>>
    ELSE IF x <= Head(s) THEN <<x>> \o s
    ELSE <<Head(s)>> \o Insert(x, Tail(s))

RECURSIVE InsertionSort(_)
InsertionSort(s) ==
    IF s = <<>> THEN <<>> ELSE Insert(Head(s), InsertionSort(Tail(s)))

\* ---------------- Provider ----------------

AssetIndex(ticker) == CHOOSE k \in 1..NumAssets : ASSETS[k].ticker = ticker

\* The adjusted close the provider holds for a ticker on a date.
ClosePrice(ticker, d) == AssetIndex(ticker) * 100 + d

NoResponse == [kind |-> "idle", close |-> FALSE, rows |-> {}, nan |-> {}]

\* What yf.download can return: None, a frame without a Close column, or a
\* frame with a Close column over some dates, some of them NaN.
Responses ==
    { [kind |-> "None", close |-> FALSE, rows |-> {}, nan |-> {}],
      [kind |-> "frame", close |-> FALSE, rows |-> Dates, nan |-> {}] }
    \cup
    UNION { { [kind |-> "frame", close |-> TRUE, rows |-> R, nan |-> N] :
                N \in SUBSET R } : R \in SUBSET Dates }

\* df["Close"] of a frame, squeezed to one column: the index ascending by
\* date as the provider delivers it, NaN where the close is missing.
CloseColumn(ticker, r) ==
    [index |-> SortedSeq(r.rows),
     val   |-> [d \in r.rows |->
                  IF d \in r.nan THEN NaN ELSE ClosePrice(ticker, d)]]

\* Series.dropna(): the entries that hold a value, in their order.
DropNa(s) ==
    LET keep == {d \in DOMAIN s.val : s.val[d] # NaN}
    IN  [index |-> SelectSeq(s.index, LAMBDA d : d \in keep),
         val   |-> [d \in keep |-> s.val[d]]]

\* Line 47 without its dropna(): a frame of NaN rows passes.
UsableKeepsNaN(ticker, r) ==
    /\ r.kind # "None"
    /\ r.close
    /\ CloseColumn(ticker, r).index # <<>>

\* The negation of the test of line 47.
Usable(ticker, r) ==
    /\ r.kind # "None"
    /\ r.close
    /\ DropNa(CloseColumn(ticker, r)).index # <<>>

None == [kind |-> "None"]

\* Lines 50-55: the Close column without NaN, named after the asset.
MakeSeries(ticker, name, r) ==
    LET s == DropNa(CloseColumn(ticker, r))
    IN  [kind |-> "Series", name |-> name, index |-> s.index, val |-> s.val]

\* ---------------- Table ----------------

EmptyFrame == [index |-> <<>>, columns |-> <<>>, cell |-> <<>>]

RECURSIVE UnionIndex(_, _)
\* The outer join of the indexes: every date of every series once, the
\* dates a series adds following those already there.
UnionIndex(ss, acc) ==
    IF ss = <<>> THEN acc
    ELSE UnionIndex(Tail(ss),
             acc \o SelectSeq(Head(ss).index, LAMBDA d : d \notin Range(acc)))

SeriesNamed(ss, c) == ss[CHOOSE k \in DOMAIN ss : ss[k].name = c]

\* pd.concat(series, axis=1): one column per series in list order, rows
\* the outer join of the indexes, NaN where a series has no entry.
Concat(ss) ==
    LET idx  == UnionIndex(ss, <<>>)
        cols == [k \in DOMAIN ss |-> ss[k].name]
    IN  [index   |-> idx,
         columns |-> cols,
         cell    |-> [p \in Range(idx) \X Range(cols) |->
                        LET s == SeriesNamed(ss, p[2])
                        IN  IF p[1] \in DOMAIN s.val THEN s.val[p[1]] ELSE NaN]]

\* DataFrame.sort_index(): rows ascending by date.
SortIndex(f) == [f EXCEPT !.index = InsertionSort(f.index)]

\* dropna(how="any"): drop the rows that miss any cell.
DropNaAny(f) ==
    LET keep == {d \in Range(f.index) :
                    \A c \in Range(f.columns) : f.cell[<<d, c>>] # NaN}
    IN  [index   |-> SelectSeq(f.index, LAMBDA d : d \in keep),
         columns |-> f.columns,
         cell    |-> [p \in keep \X Range(f.columns) |-> f.cell[p]]]

\* DataFrame.dropna(how="all"): drop the rows whose every cell is NaN.
DropNaAll(f) ==
    LET keep == {d \in Range(f.index) :
                    \E c \in Range(f.columns) : f.cell[<<d, c>>] # NaN}
    IN  [index   |-> SelectSeq(f.index, LAMBDA d : d \in keep),
         columns |-> f.columns,
         cell    |-> [p \in keep \X Range(f.columns) |-> f.cell[p]]]

\* Line 71.
MergeSeries(ss) == DropNaAll(SortIndex(Concat(ss)))

\* The emptiness test left out.
NoSeriesNever(ss) == FALSE

\* Line 69: `not series`.
NoSeries(ss) == ss = <<>>

\* The series put in front of the list instead of at its end.
CollectFront(ss, r) == IF r.kind # "None" THEN <<r>> \o ss ELSE ss

\* Lines 67-68.
Collect(ss, r) == IF r.kind # "None" THEN Append(ss, r) ELSE ss

\* ---------------- Serialisation ----------------

\* strftime("%Y-%m-%d") of the day d-1 days after START = 2015-01-01.
Strftime(d) == <<2015, 1, d>>

\* "%.8f" of a price: integer part and the 8 fractional digits; a missing
\* cell is written empty.
FloatFormat(v) == IF v = NaN THEN <<>> ELSE <<v, 0>>

\* float(val): the value itself, NaN included.
Float(v) == v

\* DataFrame.to_csv(index_label="date", float_format="%.8f").
ToCsv(f) ==
    [header |-> <<"date">> \o f.columns,
     rows   |-> [k \in DOMAIN f.index |->
                   [date  |-> Strftime(f.index[k]),
                    cells |-> [j \in DOMAIN f.columns |->
                                 FloatFormat(f.cell[<<f.index[k], f.columns[j]>>])]]]]

\* Lines 79-84: one record per date, a field for every column.
JsonItem(f, dt) ==
    [k \in {"date"} \cup Range(f.columns) |->
        IF k = "date" THEN Strftime(dt) ELSE Float(f.cell[<<dt, k>>])]

\* make_json_payload; `now` is the time on the clock.
MakeJsonPayload(f, now) ==
    [asOf   |-> now,
     start  |-> Strftime(f.index[1]),
     assets |-> f.columns,
     data   |-> [k \in DOMAIN f.index |-> JsonItem(f, f.index[k])]]

File(state, content) == [state |-> state, content |-> content]

\* ---------------- Retry policy ----------------

\* Line 58: the length of the sleep after a failed attempt.
Backoff(k) == SLEEP_SEC * k

\* range(1, MAX_RETRIES): one attempt too few.
HasAttemptOneLess(k) == k < MAX_RETRIES

\* range(1, MAX_RETRIES + 2): one attempt too many.
HasAttemptOneMore(k) == k <= MAX_RETRIES + 1

\* Line 44: the loop runs attempts 1..MAX_RETRIES.
HasAttempt(k) == k <= MAX_RETRIES

\* ---------------- State ----------------

VARIABLES
    pc,        \* where the run is
    i,         \* build_dataframe: position in ASSETS
    attempt,   \* fetch_close_series: the attempt number
    resp,      \* fetch_close_series: the frame the provider returned
    ret,       \* the value fetch_close_series returns
    series,    \* build_dataframe: the list of fetched series
    df,        \* the merged table
    csvFile,   \* docs/prices.csv
    jsonFile,  \* docs/prices.json
    log,       \* the messages printed
    clock,     \* seconds slept so far
    calls,     \* provider calls made for the asset being fetched
    outcome    \* per asset: how its fetch ended, and the dates it delivered

vars == <<pc, i, attempt, resp, ret, series, df, csvFile, jsonFile, log,
          clock, calls, outcome>>

Pending == [status |-> "pending", dates |-> {}]

\* The files of an earlier run may or may not be there.
Init ==
    /\ pc = "loop"
    /\ i = 1
    /\ attempt = 0
    /\ resp = NoResponse
    /\ ret = None
    /\ series = <<>>
    /\ df = EmptyFrame
    /\ csvFile \in {File("missing", <<>>), File("prior", <<>>)}
    /\ jsonFile \in {File("missing", <<>>), File("prior", <<>>)}
    /\ log = <<>>
    /\ clock = 0
    /\ calls = 0
    /\ outcome = [a \in Names |-> Pending]

Msg(level, what, name, k) ==
    [level |-> level, what |-> what, name |-> name, attempt |-> k]

\* ---------------- fetch_close_series ----------------

\* Line 66 and line 44: build_dataframe calls the fetcher for the next asset.
FetchNext ==
    /\ pc = "loop"
    /\ i <= NumAssets
    /\ attempt' = 1
    /\ pc' = IF HasAttempt(1) THEN "call" ELSE "exhausted"
    /\ UNCHANGED <<i, resp, ret, series, df, csvFile, jsonFile, log, clock,
                   calls, outcome>>

\* Line 46: the provider returns.
Download ==
    /\ pc = "call"
    /\ \E r \in Responses : resp' = r
    /\ calls' = calls + 1
    /\ pc' = "validate"
    /\ UNCHANGED <<i, attempt, ret, series, df, csvFile, jsonFile, log,
                   clock, outcome>>

\* Lines 46, 56-57: the provider call raises; the handler warns.
DownloadRaises ==
    /\ pc = "call"
    /\ calls' = calls + 1
    /\ log' = Append(log, Msg("WARN", "attempt failed", ASSETS[i].name, attempt))
    /\ pc' = "sleep"
    /\ UNCHANGED <<i, attempt, resp, ret, series, df, csvFile, jsonFile,
                   clock, outcome>>

\* Lines 47-49: no usable Close; warn and return None.
ReturnEmpty ==
    /\ pc = "validate"
    /\ ~Usable(ASSETS[i].ticker, resp)
    /\ log' = Append(log, Msg("WARN", "no usable Close", ASSETS[i].name, attempt))
    /\ ret' = None
    /\ outcome' = [outcome EXCEPT ![ASSETS[i].name] =
                       [status |-> "empty", dates |-> {}]]
    /\ pc' = "return"
    /\ UNCHANGED <<i, attempt, resp, series, df, csvFile, jsonFile, clock, calls>>

\* Lines 50-55: return the series.
ReturnSeries ==
    /\ pc = "validate"
    /\ Usable(ASSETS[i].ticker, resp)
    /\ ret' = MakeSeries(ASSETS[i].ticker, ASSETS[i].name, resp)
    /\ outcome' = [outcome EXCEPT ![ASSETS[i].name] =
                       [status |-> "ok", dates |-> Range(ret'.index)]]
    /\ pc' = "return"
    /\ UNCHANGED <<i, attempt, resp, series, df, csvFile, jsonFile, log,
                   clock, calls>>

\* Line 58 and the loop step of line 44: sleep, then the next attempt if
\* there is one.
Sleep ==
    /\ pc = "sleep"
    /\ clock' = clock + Backoff(attempt)
    /\ attempt' = attempt + 1
    /\ pc' = IF HasAttempt(attempt + 1) THEN "call" ELSE "exhausted"
    /\ UNCHANGED <<i, resp, ret, series, df, csvFile, jsonFile, log, calls,
                   outcome>>

\* The exhaustion raised instead of returned: it ends the run.
GiveUpRaises ==
    /\ pc = "exhausted"
    /\ log' = Append(log, Msg("ERROR", "retries exhausted", ASSETS[i].name,
                              MAX_RETRIES))
    /\ outcome' = [outcome EXCEPT ![ASSETS[i].name] =
                       [status |-> "exhausted", dates |-> {}]]
    /\ pc' = "nodata"
    /\ UNCHANGED <<i, attempt, resp, ret, series, df, csvFile, jsonFile, clock,
                   calls>>

\* Lines 59-60: the retries are exhausted.
GiveUp ==
    /\ pc = "exhausted"
    /\ log' = Append(log, Msg("ERROR", "retries exhausted", ASSETS[i].name,
                              MAX_RETRIES))
    /\ ret' = None
    /\ outcome' = [outcome EXCEPT ![ASSETS[i].name] =
                       [status |-> "exhausted", dates |-> {}]]
    /\ pc' = "return"
    /\ UNCHANGED <<i, attempt, resp, series, df, csvFile, jsonFile, clock, calls>>

\* ---------------- build_dataframe ----------------

\* Lines 66-68: the fetcher returned, its locals are gone; keep the series
\* if there is one.
FetchReturns ==
    /\ pc = "return"
    /\ series' = Collect(series, ret)
    /\ i' = i + 1
    /\ attempt' = 0
    /\ calls' = 0
    /\ resp' = NoResponse
    /\ ret' = None
    /\ pc' = "loop"
    /\ UNCHANGED <<df, csvFile, jsonFile, log, clock, outcome>>

\* Lines 69-70: nothing was fetched; RuntimeError ends the run.
RaiseNoData ==
    /\ pc = "loop"
    /\ i > NumAssets
    /\ NoSeries(series)
    /\ pc' = "nodata"
    /\ UNCHANGED <<i, attempt, resp, ret, series, df, csvFile, jsonFile, log,
                   clock, calls, outcome>>

\* Lines 71-72 and 96.
BuildTable ==
    /\ pc = "loop"
    /\ i > NumAssets
    /\ ~NoSeries(series)
    /\ df' = MergeSeries(series)
    /\ pc' = "csv"
    /\ UNCHANGED <<i, attempt, resp, ret, series, csvFile, jsonFile, log,
                   clock, calls, outcome>>

\* ---------------- main ----------------

\* Line 99.
WriteCsv ==
    /\ pc = "csv"
    /\ csvFile' = File("written", ToCsv(df))
    /\ pc' = "json"
    /\ UNCHANGED <<i, attempt, resp, ret, series, df, jsonFile, log, clock,
                   calls, outcome>>

\* Lines 102-108.
WriteJson ==
    /\ pc = "json"
    /\ jsonFile' = File("written", MakeJsonPayload(df, clock))
    /\ log' = Append(log, Msg("OK", "wrote", "", 0))
    /\ pc' = "done"
    /\ UNCHANGED <<i, attempt, resp, ret, series, df, csvFile, clock, calls,
                   outcome>>

Stopped == {"done", "nodata", "interrupted"}

\* The process is killed from outside: its memory is gone, the files, the
\* printed messages and the time spent stay.
Interrupt ==
    /\ pc \notin Stopped
    /\ pc' = "interrupted"
    /\ i' = 1
    /\ attempt' = 0
    /\ resp' = NoResponse
    /\ ret' = None
    /\ series' = <<>>
    /\ df' = EmptyFrame
    /\ calls' = 0
    /\ UNCHANGED <<csvFile, jsonFile, log, clock, outcome>>

Run ==
    \/ FetchNext
    \/ Download
    \/ DownloadRaises
    \/ ReturnEmpty
    \/ ReturnSeries
    \/ Sleep
    \/ GiveUp
    \/ FetchReturns
    \/ RaiseNoData
    \/ BuildTable
    \/ WriteCsv
    \/ WriteJson

Next ==
    \/ Run
    \/ Interrupt

Spec == Init /\ [][Next]_vars

\* ---------------- Properties ----------------

Written(f) == f.state = "written"

TableStates == {"csv", "json", "done"}

ConfigNames == [k \in 1..NumAssets |-> ASSETS[k].name]

TickerOf(a) == ASSETS[CHOOSE k \in 1..NumAssets : ASSETS[k].name = a].ticker

Status(a) == outcome[a].status

AllAbsent == \A a \in Names : Status(a) \in {"empty", "exhausted"}

\* The response in hand holds at least one close that is not NaN.
HoldsData ==
    /\ resp.kind = "frame"
    /\ resp.close
    /\ resp.rows \ resp.nan # {}

\* C1: when every asset's fetch returned None, the run ends in the no-data
\* error and in no state of it is the CSV or the JSON file written.
C1_NoDataWritesNothing ==
    /\ AllAbsent =>
          /\ ~Written(csvFile)
          /\ ~Written(jsonFile)
          /\ pc \in {"return", "loop", "nodata", "interrupted"}
    /\ pc = "nodata" => AllAbsent /\ series = <<>>

C1_Witness ==
    /\ pc = "nodata"
    /\ Status("BTC") = "exhausted"
    /\ Status("Gold") = "empty"
    /\ csvFile.state = "prior"
    /\ jsonFile.state = "prior"

\* C2: whenever the run has stopped (completed, failed or interrupted),
\* either both output files were written by it or neither was.
C2_NoPartialOutput ==
    pc \in Stopped => (Written(csvFile) <=> Written(jsonFile))

\* C3: every asset field of every record of the written JSON is a finite
\* number; a date without a price for an asset has no field for it.
C3_JsonFieldsFinite ==
    Written(jsonFile) =>
        \A k \in DOMAIN jsonFile.content.data :
            \A c \in DOMAIN jsonFile.content.data[k] \ {"date"} :
                jsonFile.content.data[k][c] # NaN

\* C4: an asset whose retries were exhausted is left out of the table, and
\* with another asset fetched the run does not abort: it never ends in the
\* no-data error, and when it is done both files are written.
C4_ExhaustedAssetIsolated ==
    \A a \in Names :
        (Status(a) = "exhausted" /\ \E b \in Names : Status(b) = "ok") =>
            /\ pc # "nodata"
            /\ pc \in TableStates => a \notin Range(df.columns)
            /\ pc = "done" => Written(csvFile) /\ Written(jsonFile)

C4_Witness ==
    /\ pc = "done"
    /\ Status("BTC") = "exhausted"
    /\ Status("Gold") = "ok"
    /\ df.columns = <<"Gold">>
    /\ Written(csvFile)
    /\ Written(jsonFile)

\* C5: after a raise on an attempt before the last the provider is called
\* again; a response with data, on whichever attempt, makes the fetch
\* return exactly that data as the asset's series; and every asset whose
\* fetch returned a series has its column in the table.
C5_RetryRecovery ==
    [][ /\ (pc = "sleep" /\ attempt < MAX_RETRIES /\ pc' # "interrupted") =>
              (pc' = "call" /\ attempt' = attempt + 1 /\ i' = i)
        /\ (pc = "validate" /\ HoldsData /\ pc' # "interrupted") =>
              /\ pc' = "return"
              /\ ret'.kind = "Series"
              /\ ret'.name = ASSETS[i].name
              /\ ret'.index = SortedSeq(resp.rows \ resp.nan)
              /\ ret'.val = [d \in resp.rows \ resp.nan |->
                               ClosePrice(ASSETS[i].ticker, d)]
        /\ pc' \in TableStates =>
              \A a \in Names :
                  outcome'[a].status = "ok" => a \in Range(df'.columns)
      ]_vars

C5_Witness ==
    /\ pc = "csv"
    /\ Status("BTC") = "ok"
    /\ "BTC" \in Range(df.columns)
    /\ Len(log) >= MAX_RETRIES - 1
    /\ \A k \in 1..(MAX_RETRIES - 1) :
          log[k] = Msg("WARN", "attempt failed", "BTC", k)

\* C6: a response without a usable close, on whichever attempt it arrives,
\* makes the fetch warn and return None at once, without another provider
\* call; the asset adds no series and has no column in the table.
C6_EmptyNotRetried ==
    [][ /\ (pc = "validate" /\ ~HoldsData /\ pc' # "interrupted") =>
              /\ pc' = "return"
              /\ ret'.kind = "None"
              /\ calls' = calls
              /\ log' = Append(log, Msg("WARN", "no usable Close",
                                        ASSETS[i].name, attempt))
              /\ outcome'[ASSETS[i].name].status = "empty"
        /\ (pc = "return" /\ ret.kind = "None" /\ pc' # "interrupted") =>
              (pc' = "loop" /\ i' = i + 1 /\ series' = series)
        /\ pc' \in TableStates =>
              \A a \in Names :
                  outcome'[a].status = "empty" => a \notin Range(df'.columns)
      ]_vars

C6_Witness ==
    /\ pc = "return"
    /\ ret.kind = "None"
    /\ Status(ASSETS[i].name) = "empty"
    /\ attempt = 2
    /\ calls = 2
    /\ resp.kind = "frame"
    /\ resp.close
    /\ resp.rows # {}
    /\ resp.nan = resp.rows

\* C7: the table's columns are the assets whose fetch succeeded, one each,
\* in configuration order.
C7_ColumnsAreSuccesses ==
    pc \in TableStates =>
        df.columns = SelectSeq(ConfigNames, LAMBDA a : Status(a) = "ok")

C7_Witness ==
    /\ pc = "json"
    /\ df.columns = <<"BTC", "Gold">>
    /\ Written(csvFile)
    /\ csvFile.content.header = <<"date", "BTC", "Gold">>

\* C8: the table's rows are the union of the dates of the fetched series,
\* ascending and without duplicate; a cell holds the asset's price for the
\* date when the asset's series has the date and is missing otherwise; no
\* row misses every asset.
C8_OuterJoin ==
    pc \in TableStates =>
        LET U == UNION {outcome[a].dates : a \in Names}
        IN  /\ df.index = SortedSeq(U)
            /\ \A d \in U : \A c \in Range(df.columns) :
                  df.cell[<<d, c>>] =
                      IF d \in outcome[c].dates
                      THEN ClosePrice(TickerOf(c), d) ELSE NaN
            /\ \A d \in U : \E c \in Range(df.columns) : df.cell[<<d, c>>] # NaN

C8_Witness ==
    /\ pc = "csv"
    /\ outcome["BTC"].dates = {1, 2, 3}
    /\ outcome["Gold"].dates = {2, 3, 4}
    /\ df.index = <<1, 2, 3, 4>>
    /\ df.cell[<<1, "BTC">>] # NaN /\ df.cell[<<1, "Gold">>] = NaN
    /\ df.cell[<<4, "BTC">>] = NaN /\ df.cell[<<4, "Gold">>] # NaN
    /\ \A d \in {2, 3} : \A c \in {"BTC", "Gold"} : df.cell[<<d, c>>] # NaN

\* Steps one fetch can take at most, the call of the fetcher included.
FetchBudget == 3 * MAX_RETRIES + 3

\* An upper bound on the steps the run can still take.
StepsLeft ==
    IF pc \in Stopped THEN 0
    ELSE IF pc = "json" THEN 1
    ELSE IF pc = "csv" THEN 2
    ELSE IF pc = "loop" THEN (NumAssets + 1 - i) * FetchBudget + 3
    ELSE (NumAssets - i) * FetchBudget + 3 +
         ( IF pc = "return" THEN 1
           ELSE IF pc = "exhausted" THEN 2
           ELSE 3 * (MAX_RETRIES + 1 - attempt) +
                ( IF pc = "call" THEN 2 ELSE IF pc = "validate" THEN 1 ELSE 0 ) )

\* C9: a fetch makes at most MAX_RETRIES provider calls; when all of them
\* raised it has made exactly MAX_RETRIES, reports the exhaustion as an
\* error and returns None; and the run ends: every step lowers StepsLeft,
\* which is never negative, so no run has more than StepsLeft steps.
C9_BoundedRetries ==
    /\ [](/\ calls <= MAX_RETRIES
          /\ pc \in {"call", "validate", "sleep"} => attempt <= MAX_RETRIES
          /\ pc = "exhausted" => calls = MAX_RETRIES
          /\ (pc = "return" /\ Status(ASSETS[i].name) = "exhausted") =>
                /\ calls = MAX_RETRIES
                /\ ret.kind = "None"
                /\ log[Len(log)] = Msg("ERROR", "retries exhausted",
                                       ASSETS[i].name, MAX_RETRIES)
          /\ StepsLeft >= 0)
    /\ [][StepsLeft' < StepsLeft]_vars

C9_Witness ==
    /\ pc = "return"
    /\ Status(ASSETS[i].name) = "exhausted"
    /\ calls = MAX_RETRIES
    /\ clock = SLEEP_SEC * 1 + SLEEP_SEC * 2 + SLEEP_SEC * 3

\* C10: the wait after a raise on attempt k lasts SLEEP_SEC * k, and every
\* such wait is followed by another provider call for the same asset.
C10_BackoffThenRetry ==
    [][ (pc = "sleep" /\ pc' # "interrupted") =>
            /\ clock' - clock = SLEEP_SEC * attempt
            /\ pc' = "call"
            /\ i' = i
      ]_vars

====
